---- MODULE Spec2Model ----
(***************************************************************************)
(* Pairwise sequence alignment of biotite.sequence.align.pairwise:         *)
(* align_ungapped and align_optimal (Needleman-Wunsch, Smith-Waterman,     *)
(* Gotoh), with the table fillers and the recursive traceback.             *)
(* Tables are functions over <<i, j>>; sequences are 1-based, so the       *)
(* source's code1[i-1] is seq1[i].                                         *)
(***************************************************************************)
EXTENDS Integers, Sequences, FiniteSets, TLC

VARIABLES
    call,              \* which public function is being executed
    seq1, seq2,        \* the codes of the two sequences
    alph1, alph2,      \* the alphabets of the two sequences
    matrix,            \* the score matrix of the substitution matrix
    gap_penalty,       \* the gap_penalty argument
    terminal_penalty,  \* the terminal_penalty argument
    local,             \* the local argument
    score_only,        \* the score_only argument of align_ungapped
    pc,                \* position in the called function
    error,             \* the exception raised, "none" if none
    trace_table,       \* the table of directions
    fill_pos,          \* the number of passes the filler's loops have made
    score_table,       \* general penalty: the score table
    m_table, g1_table, g2_table,   \* affine penalty: the three score tables
    max_score,         \* the score of the alignments
    call_stack,        \* the calls of _follow_trace begun or due, the
                       \* running one first
    trace_list,        \* the raw traces the traceback collected
    result             \* the returned value

vars == << call, seq1, seq2, alph1, alph2, matrix, gap_penalty,
           terminal_penalty, local, score_only, pc, error, trace_table,
           fill_pos, score_table, m_table, g1_table, g2_table, max_score,
           call_stack, trace_list, result >>

-----------------------------------------------------------------------------
(* Bounds and input domains *)

\* Longest sequence drawn as input
MaxLen == 2

\* The symbol codes the score matrix covers
Codes == {0, 1}

\* The alphabet of both axes of the score matrix
MatrixAlphabet == << 0, 1 >>

\* Alphabets a sequence may have: a prefix of the matrix alphabet, the matrix
\* alphabet itself, and one the matrix does not cover
SeqAlphabets == { << 0 >>, << 0, 1 >>, << 0, 1, 2 >> }

\* All sequences over S of length 0..n
SeqsUpTo(S, n) == UNION { [1..k -> S] : k \in 0..n }

\* The codes of a sequence over alphabet a, limited to those the matrix holds
\* a row or column for
CodesOf(a) == { a[k] : k \in 1..Len(a) } \cap Codes

MkMatrix(s00, s01, s10, s11) ==
    [p \in Codes \X Codes |->
        IF p = << 0, 0 >> THEN s00
        ELSE IF p = << 0, 1 >> THEN s01
        ELSE IF p = << 1, 0 >> THEN s10
        ELSE s11]

\* Score matrices drawn as input: match/mismatch, a steep mismatch, an
\* asymmetric one, and one with only negative entries
Matrices ==
    { MkMatrix(1, -1, -1, 1),
      MkMatrix(1, -3, -3, 1),
      MkMatrix(2, -1, 1, 1),
      MkMatrix(-1, -2, -1, -1) }

IntPenalty(g) == [kind |-> "int", open |-> g, ext |-> g]

TuplePenalty(o, e) == [kind |-> "tuple", open |-> o, ext |-> e]

\* A gap_penalty argument that is neither an int nor a tuple
OtherPenalty == [kind |-> "other", open |-> 0, ext |-> 0]

\* gap_penalty arguments drawn as input: negative ones, and ones with a zero
\* or positive value. No pair holds a positive value: the sentinel of line 235
\* would then lie below the 32 bit range.
GapPenalties ==
    { IntPenalty(g) : g \in {-2, -1, 0, 1} }
    \cup { TuplePenalty(-1, -1), TuplePenalty(-2, -1), TuplePenalty(-2, -2),
           TuplePenalty(-1, 0), TuplePenalty(0, -1) }
    \cup { OtherPenalty }

-----------------------------------------------------------------------------
(* 32 bit integers *)

INT32_MIN == -2147483647 - 1

INT32_MAX == 2147483647

\* a + b in a signed 32 bit integer, wrapping around
Add32(a, b) ==
    IF b > 0 /\ a > INT32_MAX - b THEN (a + INT32_MIN) + (b + INT32_MIN)
    ELSE IF b < 0 /\ a < INT32_MIN - b THEN (a - INT32_MIN) + (b - INT32_MIN)
    ELSE a + b

-----------------------------------------------------------------------------
(* Alphabets *)

\* Alphabet.extends: the other alphabet's symbols are the first symbols of self
Extends(self, other) ==
    /\ Len(other) <= Len(self)
    /\ \A k \in 1..Len(other) : self[k] = other[k]

-----------------------------------------------------------------------------
(* Tables *)

Cells(n, m) == (0..n) \X (0..m)

\* The interior cells in the order of "for i in range(1, ..): for j in
\* range(1, ..)": the k-th of them, k = 0 .. n*m-1
CellAt(k, m) == << (k \div m) + 1, (k % m) + 1 >>

-----------------------------------------------------------------------------
(* General gap penalty: table set-up and _fill_align_table *)

\* score_table after lines 263-270
InitScoreTable(n, m, g, tp, loc) ==
    [c \in Cells(n, m) |->
        IF ~loc /\ tp
        THEN IF c[1] = 0 THEN c[2] * g
             ELSE IF c[2] = 0 THEN c[1] * g
             ELSE 0
        ELSE 0]

\* trace_table after lines 220 and 271-272
InitTraceTable(n, m, loc) ==
    [c \in Cells(n, m) |->
        IF ~loc
        THEN IF c[1] >= 1 /\ c[2] = 0 THEN 4
             ELSE IF c[1] = 0 /\ c[2] >= 1 THEN 2
             ELSE 0
        ELSE 0]

\* FindMaximum with the tie of diagonal and left recorded as diagonal only
FindMaximumDropsLeftTie(from_diag, from_left, from_top) ==
    IF from_diag > from_left
    THEN IF from_diag > from_top THEN << 1, from_diag >>
         ELSE IF from_diag = from_top THEN << 5, from_diag >>
         ELSE << 4, from_top >>
    ELSE IF from_diag = from_left
    THEN IF from_diag > from_top THEN << 1, from_diag >>
         ELSE IF from_diag = from_top THEN << 7, from_diag >>
         ELSE << 4, from_top >>
    ELSE IF from_left > from_top THEN << 2, from_left >>
         ELSE IF from_left = from_top THEN << 6, from_diag >>
         ELSE << 4, from_top >>

\* FindMaximum with the tie of diagonal and top recorded as diagonal only
FindMaximumDropsTopTie(from_diag, from_left, from_top) ==
    IF from_diag > from_left
    THEN IF from_diag > from_top THEN << 1, from_diag >>
         ELSE IF from_diag = from_top THEN << 1, from_diag >>
         ELSE << 4, from_top >>
    ELSE IF from_diag = from_left
    THEN IF from_diag > from_top THEN << 3, from_diag >>
         ELSE IF from_diag = from_top THEN << 7, from_diag >>
         ELSE << 4, from_top >>
    ELSE IF from_left > from_top THEN << 2, from_left >>
         ELSE IF from_left = from_top THEN << 6, from_diag >>
         ELSE << 4, from_top >>

\* "Find maximum" of _fill_align_table, lines 405-426: << trace, score >>
FindMaximum(from_diag, from_left, from_top) ==
    IF from_diag > from_left
    THEN IF from_diag > from_top THEN << 1, from_diag >>
         ELSE IF from_diag = from_top THEN << 5, from_diag >>
         ELSE << 4, from_top >>
    ELSE IF from_diag = from_left
    THEN IF from_diag > from_top THEN << 3, from_diag >>
         ELSE IF from_diag = from_top THEN << 7, from_diag >>
         ELSE << 4, from_top >>
    ELSE IF from_left > from_top THEN << 2, from_left >>
         ELSE IF from_left = from_top THEN << 6, from_diag >>
         ELSE << 4, from_top >>

\* Lines 389-403: << from_diag, from_left, from_top >> for cell << i, j >>
\* of score table st
GeneralCandidates(st, i, j, code1, code2, mat, g, tp) ==
    LET i_max == Len(code1)
        j_max == Len(code2)
        from_diag == Add32(st[<< i-1, j-1 >>], mat[<< code1[i], code2[j] >>])
        from_left == IF ~tp /\ i = i_max
                     THEN st[<< i, j-1 >>]
                     ELSE Add32(st[<< i, j-1 >>], g)
        from_top  == IF ~tp /\ j = j_max
                     THEN st[<< i-1, j >>]
                     ELSE Add32(st[<< i-1, j >>], g)
    IN  << from_diag, from_left, from_top >>

\* FillCell with the local clamp applied only below zero, not at zero
FillCellClampsBelowZero(t, i, j, code1, code2, mat, g, tp, loc) ==
    LET from == GeneralCandidates(t.score, i, j, code1, code2, mat, g, tp)
        ts == FindMaximum(from[1], from[2], from[3])
    IN  IF loc /\ ts[2] < 0
        THEN [t EXCEPT !.score[<< i, j >>] = 0]
        ELSE [t EXCEPT !.score[<< i, j >>] = ts[2],
                       !.trace[<< i, j >>] = ts[1]]

\* FillCell writing the trace byte of a clamped cell as well
FillCellClampKeepsTrace(t, i, j, code1, code2, mat, g, tp, loc) ==
    LET from == GeneralCandidates(t.score, i, j, code1, code2, mat, g, tp)
        ts == FindMaximum(from[1], from[2], from[3])
    IN  IF loc /\ ts[2] <= 0
        THEN [t EXCEPT !.score[<< i, j >>] = 0,
                       !.trace[<< i, j >>] = ts[1]]
        ELSE [t EXCEPT !.score[<< i, j >>] = ts[2],
                       !.trace[<< i, j >>] = ts[1]]

\* One pass of the loop body of _fill_align_table for cell << i, j >>;
\* t is [score |-> score_table, trace |-> trace_table]
FillCell(t, i, j, code1, code2, mat, g, tp, loc) ==
    LET from == GeneralCandidates(t.score, i, j, code1, code2, mat, g, tp)
        ts == FindMaximum(from[1], from[2], from[3])
    IN  IF loc /\ ts[2] <= 0
        THEN [t EXCEPT !.score[<< i, j >>] = 0]
        ELSE [t EXCEPT !.score[<< i, j >>] = ts[2],
                       !.trace[<< i, j >>] = ts[1]]

RECURSIVE FillLoop(_, _, _, _, _, _, _, _)
\* The double loop of _fill_align_table from the k-th interior cell on
FillLoop(t, k, code1, code2, mat, g, tp, loc) ==
    IF k >= Len(code1) * Len(code2) THEN t
    ELSE LET c == CellAt(k, Len(code2))
         IN  FillLoop(FillCell(t, c[1], c[2], code1, code2, mat, g, tp, loc),
                      k + 1, code1, code2, mat, g, tp, loc)

\* _fill_align_table on the tables as align_optimal sets them up
fill_align_table(code1, code2, mat, g, tp, loc) ==
    FillLoop([score |-> InitScoreTable(Len(code1), Len(code2), g, tp, loc),
              trace |-> InitTraceTable(Len(code1), Len(code2), loc)],
             0, code1, code2, mat, g, tp, loc)

-----------------------------------------------------------------------------
(* Affine gap penalty: table set-up and _fill_align_table_affine *)

\* np.min(matrix.score_matrix())
MinScore(mat) ==
    CHOOSE v \in { mat[p] : p \in DOMAIN mat } :
        \A p \in DOMAIN mat : v <= mat[p]

\* NegInf without the margin: the smallest 32 bit integer itself
NegInfNoMargin(mat, gap_open, gap_ext) == INT32_MIN

\* The value for negative infinity, lines 235-238
NegInf(mat, gap_open, gap_ext) ==
    LET base == INT32_MIN - 2 * gap_open - 2 * gap_ext
        min_score == MinScore(mat)
    IN  IF min_score < 0 THEN base - min_score ELSE base

\* m_table after lines 240-244
InitMTable(n, m, neg_inf) ==
    [c \in Cells(n, m) |->
        IF (c[1] = 0 /\ c[2] >= 1) \/ (c[1] >= 1 /\ c[2] = 0)
        THEN neg_inf ELSE 0]

\* g1_table after lines 241, 245 and 252
InitG1Table(n, m, neg_inf, gap_open, gap_ext, tp, loc) ==
    [c \in Cells(n, m) |->
        IF ~loc /\ tp /\ c[1] = 0 /\ c[2] >= 1
        THEN (c[2] - 1) * gap_ext + gap_open
        ELSE IF c[2] = 0 THEN neg_inf ELSE 0]

\* g2_table after lines 242, 246 and 253
InitG2Table(n, m, neg_inf, gap_open, gap_ext, tp, loc) ==
    [c \in Cells(n, m) |->
        IF ~loc /\ tp /\ c[1] >= 1 /\ c[2] = 0
        THEN (c[1] - 1) * gap_ext + gap_open
        ELSE IF c[1] = 0 THEN neg_inf ELSE 0]

\* InitTraceTableAffine with row 0 left empty
InitTraceTableAffineNoRow0(n, m, loc) ==
    [c \in Cells(n, m) |->
        IF ~loc /\ c[1] >= 1 /\ c[2] = 0 THEN 64 ELSE 0]

\* trace_table after lines 220 and 254-255
InitTraceTableAffine(n, m, loc) ==
    [c \in Cells(n, m) |->
        IF ~loc
        THEN IF c[1] >= 1 /\ c[2] = 0 THEN 64
             ELSE IF c[1] = 0 /\ c[2] >= 1 THEN 16
             ELSE 0
        ELSE 0]

\* Maximum for the match table, lines 491-511: << trace, m_score >>
FindMaximumMatch(mm_score, g1m_score, g2m_score) ==
    IF mm_score > g1m_score
    THEN IF mm_score > g2m_score THEN << 1, mm_score >>
         ELSE IF mm_score = g2m_score THEN << 5, mm_score >>
         ELSE << 4, g2m_score >>
    ELSE IF mm_score = g1m_score
    THEN IF mm_score > g2m_score THEN << 3, mm_score >>
         ELSE IF mm_score = g2m_score THEN << 7, mm_score >>
         ELSE << 4, g2m_score >>
    ELSE IF g1m_score > g2m_score THEN << 2, g1m_score >>
         ELSE IF g1m_score = g2m_score THEN << 6, mm_score >>
         ELSE << 4, g2m_score >>

\* Maximum for the gap table of sequence 1, lines 513-521: << bits, g1_score >>
FindMaximumGap1(mg1_score, g1g1_score) ==
    IF mg1_score > g1g1_score THEN << 8, mg1_score >>
    ELSE IF mg1_score < g1g1_score THEN << 16, g1g1_score >>
    ELSE << 24, mg1_score >>

\* Maximum for the gap table of sequence 2, lines 522-530: << bits, g2_score >>
FindMaximumGap2(mg2_score, g2g2_score) ==
    IF mg2_score > g2g2_score THEN << 32, mg2_score >>
    ELSE IF mg2_score < g2g2_score THEN << 64, g2g2_score >>
    ELSE << 96, g2g2_score >>

\* Lines 466-486: the operands of the seven candidate scores for cell
\* << i, j >>, each as << table entry, value added to it >>; where the source
\* takes the entry as it is, the value added is 0
AffineAdditions(mt, g1t, g2t, i, j, code1, code2, mat, gap_open, gap_ext, tp) ==
    LET i_max == Len(code1)
        j_max == Len(code2)
        similarity == mat[<< code1[i], code2[j] >>]
        free1 == ~tp /\ i = i_max
        free2 == ~tp /\ j = j_max
    IN  [mm_score  |-> << mt[<< i-1, j-1 >>], similarity >>,
         g1m_score |-> << g1t[<< i-1, j-1 >>], similarity >>,
         g2m_score |-> << g2t[<< i-1, j-1 >>], similarity >>,
         mg1_score  |-> << mt[<< i, j-1 >>], IF free1 THEN 0 ELSE gap_open >>,
         g1g1_score |-> << g1t[<< i, j-1 >>], IF free1 THEN 0 ELSE gap_ext >>,
         mg2_score  |-> << mt[<< i-1, j >>], IF free2 THEN 0 ELSE gap_open >>,
         g2g2_score |-> << g2t[<< i-1, j >>], IF free2 THEN 0 ELSE gap_ext >>]

\* Lines 466-486: the seven candidate scores for cell << i, j >> of the
\* tables mt, g1t and g2t
AffineCandidates(mt, g1t, g2t, i, j, code1, code2, mat, gap_open, gap_ext, tp) ==
    LET i_max == Len(code1)
        j_max == Len(code2)
        similarity == mat[<< code1[i], code2[j] >>]
    IN  [mm_score  |-> Add32(mt[<< i-1, j-1 >>], similarity),
         g1m_score |-> Add32(g1t[<< i-1, j-1 >>], similarity),
         g2m_score |-> Add32(g2t[<< i-1, j-1 >>], similarity),
         mg1_score  |-> IF ~tp /\ i = i_max
                        THEN mt[<< i, j-1 >>]
                        ELSE Add32(mt[<< i, j-1 >>], gap_open),
         g1g1_score |-> IF ~tp /\ i = i_max
                        THEN g1t[<< i, j-1 >>]
                        ELSE Add32(g1t[<< i, j-1 >>], gap_ext),
         mg2_score  |-> IF ~tp /\ j = j_max
                        THEN mt[<< i-1, j >>]
                        ELSE Add32(mt[<< i-1, j >>], gap_open),
         g2g2_score |-> IF ~tp /\ j = j_max
                        THEN g2t[<< i-1, j >>]
                        ELSE Add32(g2t[<< i-1, j >>], gap_ext)]

\* One pass of the loop body of _fill_align_table_affine for cell << i, j >>;
\* t is [m |-> m_table, g1 |-> g1_table, g2 |-> g2_table, trace |-> trace_table].
\* The bit groups 7, 24 and 96 of the trace byte are disjoint, so the byte is
\* their sum and clearing a group ("trace &= ~7") leaves it out of the sum.
FillCellAffine(t, i, j, code1, code2, mat, gap_open, gap_ext, tp, loc) ==
    LET from == AffineCandidates(t.m, t.g1, t.g2, i, j, code1, code2, mat,
                                 gap_open, gap_ext, tp)
        mx  == FindMaximumMatch(from.mm_score, from.g1m_score, from.g2m_score)
        g1x == FindMaximumGap1(from.mg1_score, from.g1g1_score)
        g2x == FindMaximumGap2(from.mg2_score, from.g2g2_score)
        m_clamp  == loc /\ mx[2] <= 0
        g1_clamp == loc /\ g1x[2] <= 0
        g2_clamp == loc /\ g2x[2] <= 0
        trace == (IF m_clamp THEN 0 ELSE mx[1])
                 + (IF g1_clamp THEN 0 ELSE g1x[1])
                 + (IF g2_clamp THEN 0 ELSE g2x[1])
    IN  [t EXCEPT !.m[<< i, j >>]  = IF m_clamp  THEN 0 ELSE mx[2],
                  !.g1[<< i, j >>] = IF g1_clamp THEN 0 ELSE g1x[2],
                  !.g2[<< i, j >>] = IF g2_clamp THEN 0 ELSE g2x[2],
                  !.trace[<< i, j >>] = trace]

RECURSIVE FillLoopAffine(_, _, _, _, _, _, _, _, _)
\* The double loop of _fill_align_table_affine from the k-th interior cell on
FillLoopAffine(t, k, code1, code2, mat, gap_open, gap_ext, tp, loc) ==
    IF k >= Len(code1) * Len(code2) THEN t
    ELSE LET c == CellAt(k, Len(code2))
         IN  FillLoopAffine(
                 FillCellAffine(t, c[1], c[2], code1, code2, mat,
                                gap_open, gap_ext, tp, loc),
                 k + 1, code1, code2, mat, gap_open, gap_ext, tp, loc)

\* _fill_align_table_affine on the tables as align_optimal sets them up
fill_align_table_affine(code1, code2, mat, gap_open, gap_ext, tp, loc) ==
    LET n == Len(code1)
        m == Len(code2)
        neg_inf == NegInf(mat, gap_open, gap_ext)
    IN  FillLoopAffine(
            [m  |-> InitMTable(n, m, neg_inf),
             g1 |-> InitG1Table(n, m, neg_inf, gap_open, gap_ext, tp, loc),
             g2 |-> InitG2Table(n, m, neg_inf, gap_open, gap_ext, tp, loc),
             trace |-> InitTraceTableAffine(n, m, loc)],
            0, code1, code2, mat, gap_open, gap_ext, tp, loc)

-----------------------------------------------------------------------------
(* Traceback: _follow_trace *)

\* "v & b" is non-zero, for a single bit b
HasBit(v, b) == (v \div b) % 2 = 1

\* "v & mask" for the bit groups 7, 24 and 96 of the affine trace byte
MaskBits(v, mask) ==
    IF mask = 7 THEN v % 8
    ELSE IF mask = 24 THEN ((v \div 8) % 4) * 8
    ELSE ((v \div 32) % 4) * 32

\* The mask of the bits belonging to a state's table, lines 617-622
StateMask(state) == IF state = 1 THEN 7 ELSE IF state = 2 THEN 24 ELSE 96

\* The loop condition (state 0) and the negated break condition (states 1-3)
TraceContinues(tt, i, j, state) ==
    IF state = 0 THEN tt[<< i, j >>] # 0
    ELSE MaskBits(tt[<< i, j >>], StateMask(state)) # 0

\* NextSteps with the bit 16 leading from the first gap state into the second
NextStepsCrossing(tt, i, j, state) ==
    IF state = 0
    THEN LET trace_value == tt[<< i, j >>]
         IN  (IF HasBit(trace_value, 1) THEN << << i-1, j-1, 0 >> >> ELSE << >>)
             \o (IF HasBit(trace_value, 2) THEN << << i, j-1, 0 >> >> ELSE << >>)
             \o (IF HasBit(trace_value, 4) THEN << << i-1, j, 0 >> >> ELSE << >>)
    ELSE LET trace_value == MaskBits(tt[<< i, j >>], StateMask(state))
         IN  (IF HasBit(trace_value, 1) THEN << << i-1, j-1, 1 >> >> ELSE << >>)
             \o (IF HasBit(trace_value, 2) THEN << << i-1, j-1, 2 >> >> ELSE << >>)
             \o (IF HasBit(trace_value, 4) THEN << << i-1, j-1, 3 >> >> ELSE << >>)
             \o (IF HasBit(trace_value, 8) THEN << << i, j-1, 1 >> >> ELSE << >>)
             \o (IF HasBit(trace_value, 16) THEN << << i, j-1, 3 >> >> ELSE << >>)
             \o (IF HasBit(trace_value, 32) THEN << << i-1, j, 1 >> >> ELSE << >>)
             \o (IF HasBit(trace_value, 64) THEN << << i-1, j, 3 >> >> ELSE << >>)

\* next_indices and next_states of one loop pass, as << i, j, state >> in the
\* order the source appends them
NextSteps(tt, i, j, state) ==
    IF state = 0
    THEN LET trace_value == tt[<< i, j >>]
         IN  (IF HasBit(trace_value, 1) THEN << << i-1, j-1, 0 >> >> ELSE << >>)
             \o (IF HasBit(trace_value, 2) THEN << << i, j-1, 0 >> >> ELSE << >>)
             \o (IF HasBit(trace_value, 4) THEN << << i-1, j, 0 >> >> ELSE << >>)
    ELSE LET trace_value == MaskBits(tt[<< i, j >>], StateMask(state))
         IN  (IF HasBit(trace_value, 1) THEN << << i-1, j-1, 1 >> >> ELSE << >>)
             \o (IF HasBit(trace_value, 2) THEN << << i-1, j-1, 2 >> >> ELSE << >>)
             \o (IF HasBit(trace_value, 4) THEN << << i-1, j-1, 3 >> >> ELSE << >>)
             \o (IF HasBit(trace_value, 8) THEN << << i, j-1, 1 >> >> ELSE << >>)
             \o (IF HasBit(trace_value, 16) THEN << << i, j-1, 2 >> >> ELSE << >>)
             \o (IF HasBit(trace_value, 32) THEN << << i-1, j, 1 >> >> ELSE << >>)
             \o (IF HasBit(trace_value, 64) THEN << << i-1, j, 3 >> >> ELSE << >>)

\* Line 658: the rows of the trace array that are not << -1, -1 >>
TrimTrace(trace) ==
    LET Kept(row) == row[1] # -1 \/ row[2] # -1
    IN  SelectSeq(trace, Kept)

RECURSIVE follow_trace(_, _, _, _, _, _)
RECURSIVE FollowSiblings(_, _, _, _, _)
\* FollowSiblings with each sibling writing from the row of the split on, not
\* from the row after it
FollowSiblingsOverwrite(tt, steps, k, pos, trace) ==
    IF k > Len(steps) THEN << >>
    ELSE follow_trace(tt, steps[k][1], steps[k][2], pos - 1, trace,
                      steps[k][3])
         \o FollowSiblings(tt, steps, k + 1, pos, trace)

\* The recursive calls for next_indices[1:], from the k-th entry on (1-based:
\* k = 2 is the first sibling); each receives np.copy(trace)
FollowSiblings(tt, steps, k, pos, trace) ==
    IF k > Len(steps) THEN << >>
    ELSE follow_trace(tt, steps[k][1], steps[k][2], pos, trace, steps[k][3])
         \o FollowSiblings(tt, steps, k + 1, pos, trace)

\* _follow_trace: the traces it appends to trace_list, in order. trace is the
\* array of rows, pos the 0-based index of the next row to write
follow_trace(tt, i, j, pos, trace, state) ==
    IF ~TraceContinues(tt, i, j, state) THEN << TrimTrace(trace) >>
    ELSE LET written == [trace EXCEPT ![pos + 1] = << i-1, j-1 >>]
             steps == NextSteps(tt, i, j, state)
         IN  FollowSiblings(tt, steps, 2, pos + 1, written)
             \o follow_trace(tt, steps[1][1], steps[1][2], pos + 1, written,
                             steps[1][3])

-----------------------------------------------------------------------------
(* Traceback: start cells and the loop over them, lines 281-353 *)

\* The largest element of a non-empty set of integers
MaxOf(S) == CHOOSE v \in S : \A w \in S : w <= v

\* All cells in row-major order, the order of np.where
CellSeq(n, m) ==
    [k \in 1..((n + 1) * (m + 1)) |->
        << (k - 1) \div (m + 1), (k - 1) % (m + 1) >>]

\* np.where(table == value), each hit tagged with a start state
WhereEqual(table, n, m, value, state) ==
    LET Hit(c) == table[c] = value
        hits == SelectSeq(CellSeq(n, m), Hit)
    IN  [k \in 1..Len(hits) |-> << hits[k][1], hits[k][2], state >>]

\* max_score for a general penalty, lines 314 and 344
MaxScoreGeneral(st, n, m, loc) ==
    IF loc THEN MaxOf({ st[c] : c \in Cells(n, m) })
    ELSE st[<< n, m >>]

\* max_score for an affine penalty, lines 297 and 325-327
MaxScoreAffine(mt, g1t, g2t, n, m, loc) ==
    IF loc
    THEN MaxOf({ mt[c] : c \in Cells(n, m) }
               \cup { g1t[c] : c \in Cells(n, m) }
               \cup { g2t[c] : c \in Cells(n, m) })
    ELSE MaxOf({ mt[<< n, m >>], g1t[<< n, m >>], g2t[<< n, m >>] })

\* i_list, j_list and state_list for a general penalty, as << i, j, state >>
StartsGeneral(st, n, m, loc) ==
    IF loc THEN WhereEqual(st, n, m, MaxScoreGeneral(st, n, m, loc), 0)
    ELSE << << n, m, 0 >> >>

\* StartsAffine taking the end cell only in the match state
StartsAffineMatchOnly(mt, g1t, g2t, n, m, loc) ==
    LET mx == MaxScoreAffine(mt, g1t, g2t, n, m, loc)
    IN  IF loc
        THEN WhereEqual(mt, n, m, mx, 1)
        ELSE (IF mt[<< n, m >>] = mx THEN << << n, m, 1 >> >> ELSE << >>)

\* i_list, j_list and state_list for an affine penalty
StartsAffine(mt, g1t, g2t, n, m, loc) ==
    LET mx == MaxScoreAffine(mt, g1t, g2t, n, m, loc)
    IN  IF loc
        THEN WhereEqual(mt, n, m, mx, 1)
             \o WhereEqual(g1t, n, m, mx, 2)
             \o WhereEqual(g2t, n, m, mx, 3)
        ELSE (IF mt[<< n, m >>] = mx THEN << << n, m, 1 >> >> ELSE << >>)
             \o (IF g1t[<< n, m >>] = mx THEN << << n, m, 2 >> >> ELSE << >>)
             \o (IF g2t[<< n, m >>] = mx THEN << << n, m, 3 >> >> ELSE << >>)

\* np.full(( i_start+1 + j_start+1, 2 ), -1)
EmptyTrace(i_start, j_start) ==
    [k \in 1..(i_start + 1 + j_start + 1) |-> << -1, -1 >>]

RECURSIVE FollowAll(_, _, _)
\* The loop of lines 346-353 from the k-th start on: the final trace_list
FollowAll(tt, starts, k) ==
    IF k > Len(starts) THEN << >>
    ELSE follow_trace(tt, starts[k][1], starts[k][2], 0,
                      EmptyTrace(starts[k][1], starts[k][2]), starts[k][3])
         \o FollowAll(tt, starts, k + 1)

-----------------------------------------------------------------------------
(* Result assembly, lines 355-364 *)

\* np.flip(trace, axis=0)
Flip(trace) == [k \in 1..Len(trace) |-> trace[Len(trace) + 1 - k]]

\* ReplaceGaps without the flip: the trace stays in traceback order
ReplaceGapsNoFlip(raw) ==
    LET First(k, col) == \A q \in 1..(k - 1) : raw[q][col] # raw[k][col]
    IN  [k \in 1..Len(raw) |->
            << IF First(k, 1) THEN raw[k][1] ELSE -1,
               IF First(k, 2) THEN raw[k][2] ELSE -1 >>]

\* Lines 357-361: a row keeps a column's value only where that value occurs
\* for the first time in the column (np.unique, return_index), else -1
ReplaceGaps(raw) ==
    LET trace == Flip(raw)
        First(k, col) == \A q \in 1..(k - 1) : trace[q][col] # trace[k][col]
    IN  [k \in 1..Len(trace) |->
            << IF First(k, 1) THEN trace[k][1] ELSE -1,
               IF First(k, 2) THEN trace[k][2] ELSE -1 >>]

\* The list of Alignment objects: each a trace and the score
Alignments(traces, score) ==
    [k \in 1..Len(traces) |->
        [trace |-> ReplaceGaps(traces[k]), score |-> score]]

-----------------------------------------------------------------------------
(* align_optimal as one computation *)

\* What a call of align_optimal does: the exception it raises, or the list
\* of alignments it returns
align_optimal(a1, a2, code1, code2, mat, gp, tp, loc) ==
    IF ~Extends(MatrixAlphabet, a1) \/ ~Extends(MatrixAlphabet, a2)
    THEN [error |-> "ValueError", alignments |-> << >>]
    ELSE IF gp.kind = "int"
    THEN LET t == fill_align_table(code1, code2, mat, gp.open, tp, loc)
             n == Len(code1)
             m == Len(code2)
         IN  [error |-> "none",
              alignments |->
                  Alignments(FollowAll(t.trace,
                                       StartsGeneral(t.score, n, m, loc), 1),
                             MaxScoreGeneral(t.score, n, m, loc))]
    ELSE IF gp.kind = "tuple"
    THEN LET t == fill_align_table_affine(code1, code2, mat, gp.open, gp.ext,
                                          tp, loc)
             n == Len(code1)
             m == Len(code2)
         IN  [error |-> "none",
              alignments |->
                  Alignments(FollowAll(t.trace,
                                       StartsAffine(t.m, t.g1, t.g2, n, m, loc),
                                       1),
                             MaxScoreAffine(t.m, t.g1, t.g2, n, m, loc))]
    ELSE [error |-> "TypeError", alignments |-> << >>]

-----------------------------------------------------------------------------
(* align_ungapped and _add_scores *)

RECURSIVE AddScoresFrom(_, _, _, _, _)
\* The loop of _add_scores from index i (1-based) on, score so far given
AddScoresFrom(code1, code2, mat, i, score) ==
    IF i > Len(code1) THEN score
    ELSE AddScoresFrom(code1, code2, mat, i + 1,
                       Add32(score, mat[<< code1[i], code2[i] >>]))

\* _add_scores with the loop starting one position late
add_scores_skips_first(code1, code2, mat) ==
    AddScoresFrom(code1, code2, mat, 2, 0)

\* _add_scores
add_scores(code1, code2, mat) == AddScoresFrom(code1, code2, mat, 1, 0)

\* np.arange(n)
Arange(n) == [k \in 1..n |-> k - 1]

\* np.tile(a, 2)
Tile2(a) == a \o a

\* flat.reshape(2, n): two rows of n entries
Reshape2(flat, n) == [r \in 1..2 |-> [c \in 1..n |-> flat[(r - 1) * n + c]]]

\* rows.transpose() of a 2 x n array: n rows of 2 entries
Transpose2(rows, n) == [c \in 1..n |-> << rows[1][c], rows[2][c] >>]

\* The trivial trace of lines 86-88
TrivialTrace(seq_length) ==
    Transpose2(Reshape2(Tile2(Arange(seq_length)), seq_length), seq_length)

\* The condition of lines 70-71 under which align_ungapped raises
UngappedAlphabetError(a1, a2) ==
    MatrixAlphabet # a1 /\ MatrixAlphabet # a2

\* What a call of align_ungapped does: the exception it raises, or the value
\* it returns
align_ungapped(a1, a2, code1, code2, mat, so) ==
    IF Len(code1) # Len(code2)
    THEN [error |-> "ValueError: lengths", kind |-> "none",
          score |-> 0, trace |-> << >>]
    ELSE IF UngappedAlphabetError(a1, a2)
    THEN [error |-> "ValueError: alphabets", kind |-> "none",
          score |-> 0, trace |-> << >>]
    ELSE IF so
    THEN [error |-> "none", kind |-> "score",
          score |-> add_scores(code1, code2, mat), trace |-> << >>]
    ELSE [error |-> "none", kind |-> "alignment",
          score |-> add_scores(code1, code2, mat),
          trace |-> TrivialTrace(Len(code1))]

-----------------------------------------------------------------------------
(* The state machine *)

\* Alphabets of the sequences passed to align_optimal
OptimalAlphabets == { << 0, 1 >>, << 0, 1, 2 >> }

NoTable == << >>

\* A call of align_optimal about to start. The sequences drawn hold only
\* symbols the matrix has a row or column for.
Init ==
    /\ call = "align_optimal"
    /\ alph1 \in OptimalAlphabets
    /\ alph2 \in OptimalAlphabets
    /\ seq1 \in SeqsUpTo(CodesOf(alph1), MaxLen)
    /\ seq2 \in SeqsUpTo(CodesOf(alph2), MaxLen)
    /\ matrix \in Matrices
    /\ gap_penalty \in GapPenalties
    /\ terminal_penalty \in BOOLEAN
    /\ local \in BOOLEAN
    /\ score_only = FALSE
    /\ pc = "start"
    /\ error = "none"
    /\ trace_table = NoTable
    /\ fill_pos = 0
    /\ score_table = NoTable
    /\ m_table = NoTable
    /\ g1_table = NoTable
    /\ g2_table = NoTable
    /\ max_score = 0
    /\ call_stack = << >>
    /\ trace_list = << >>
    /\ result = << >>

\* A call of align_ungapped about to start
InitUngapped ==
    /\ call = "align_ungapped"
    /\ alph1 \in SeqAlphabets
    /\ alph2 \in SeqAlphabets
    /\ seq1 \in SeqsUpTo(CodesOf(alph1), MaxLen)
    /\ seq2 \in SeqsUpTo(CodesOf(alph2), MaxLen)
    /\ matrix \in Matrices
    /\ gap_penalty = OtherPenalty
    /\ terminal_penalty = TRUE
    /\ local = FALSE
    /\ score_only \in BOOLEAN
    /\ pc = "start"
    /\ error = "none"
    /\ trace_table = NoTable
    /\ fill_pos = 0
    /\ score_table = NoTable
    /\ m_table = NoTable
    /\ g1_table = NoTable
    /\ g2_table = NoTable
    /\ max_score = 0
    /\ call_stack = << >>
    /\ trace_list = << >>
    /\ result = << >>

inputs == << call, seq1, seq2, alph1, alph2, matrix, gap_penalty,
             terminal_penalty, local, score_only >>

tables == << trace_table, score_table, m_table, g1_table, g2_table >>

\* AlphabetsFit testing the alphabet of the first sequence only
AlphabetsFitFirstOnly == Extends(MatrixAlphabet, alph1)

\* matrix.get_alphabet1() and matrix.get_alphabet2(): the codes the score
\* matrix has a row and a column for
AlphabetOf(mat) ==
    LET size == Cardinality({ p[1] : p \in DOMAIN mat })
    IN  [k \in 1..size |-> k - 1]

AlphabetsFit ==
    /\ Extends(AlphabetOf(matrix), alph1)
    /\ Extends(AlphabetOf(matrix), alph2)

\* Lines 190-192: the matrix alphabets do not extend the sequences' alphabets
RaiseAlphabetMismatch ==
    /\ call = "align_optimal" /\ pc = "start"
    /\ ~AlphabetsFit
    /\ error' = "ValueError"
    /\ pc' = "raised"
    /\ UNCHANGED << inputs, call_stack, tables, fill_pos, max_score,
                    trace_list, result >>

\* Lines 194-199: gap_penalty is neither an int nor a tuple
RaiseGapPenaltyType ==
    /\ call = "align_optimal" /\ pc = "start"
    /\ AlphabetsFit
    /\ gap_penalty.kind \notin {"int", "tuple"}
    /\ error' = "TypeError"
    /\ pc' = "raised"
    /\ UNCHANGED << inputs, call_stack, tables, fill_pos, max_score,
                    trace_list, result >>

\* Lines 189-199, 220-222 and 260-274: table filling with a general penalty
FillGeneral ==
    /\ call = "align_optimal" /\ pc = "start"
    /\ AlphabetsFit
    /\ gap_penalty.kind = "int"
    /\ LET t == fill_align_table(seq1, seq2, matrix, gap_penalty.open,
                                 terminal_penalty, local)
       IN  /\ score_table' = t.score
           /\ trace_table' = t.trace
    /\ fill_pos' = Len(seq1) * Len(seq2)
    /\ pc' = "filled"
    /\ UNCHANGED << inputs, call_stack, error, m_table, g1_table, g2_table,
                    max_score, trace_list, result >>

\* Lines 189-199, 220-222 and 226-259: table filling with an affine penalty
FillAffine ==
    /\ call = "align_optimal" /\ pc = "start"
    /\ AlphabetsFit
    /\ gap_penalty.kind = "tuple"
    /\ LET t == fill_align_table_affine(seq1, seq2, matrix, gap_penalty.open,
                                        gap_penalty.ext, terminal_penalty,
                                        local)
       IN  /\ m_table' = t.m
           /\ g1_table' = t.g1
           /\ g2_table' = t.g2
           /\ trace_table' = t.trace
    /\ fill_pos' = Len(seq1) * Len(seq2)
    /\ pc' = "filled"
    /\ UNCHANGED << inputs, call_stack, error, score_table, max_score,
                    trace_list, result >>

\* Lines 276-353 for a general penalty: start cells and all traces
TracebackGeneral ==
    /\ pc = "filled" /\ gap_penalty.kind = "int"
    /\ LET n == Len(seq1)
           m == Len(seq2)
       IN  /\ max_score' = MaxScoreGeneral(score_table, n, m, local)
           /\ trace_list' =
                  FollowAll(trace_table,
                            StartsGeneral(score_table, n, m, local), 1)
    /\ pc' = "traced"
    /\ UNCHANGED << inputs, call_stack, tables, fill_pos, error, result >>

\* Lines 276-353 for an affine penalty: start cells and all traces
TracebackAffine ==
    /\ pc = "filled" /\ gap_penalty.kind = "tuple"
    /\ LET n == Len(seq1)
           m == Len(seq2)
       IN  /\ max_score' =
                  MaxScoreAffine(m_table, g1_table, g2_table, n, m, local)
           /\ trace_list' =
                  FollowAll(trace_table,
                            StartsAffine(m_table, g1_table, g2_table, n, m,
                                         local), 1)
    /\ pc' = "traced"
    /\ UNCHANGED << inputs, call_stack, tables, fill_pos, error, result >>

\* Lines 355-364: gap entries replaced, the alignments returned
ReturnAlignments ==
    /\ pc = "traced"
    /\ result' = Alignments(trace_list, max_score)
    /\ pc' = "done"
    /\ UNCHANGED << inputs, call_stack, tables, fill_pos, error, max_score,
                    trace_list >>

Next ==
    \/ RaiseAlphabetMismatch
    \/ RaiseGapPenaltyType
    \/ FillGeneral
    \/ FillAffine
    \/ TracebackGeneral
    \/ TracebackAffine
    \/ ReturnAlignments

Spec == Init /\ [][Next]_vars

-----------------------------------------------------------------------------
(* align_optimal with the table fillers taken one loop pass at a time *)

\* Lines 189-199, 220-222 and 263-272: the arguments are accepted and the
\* tables for a general penalty are set up
SetUpGeneral ==
    /\ call = "align_optimal" /\ pc = "start"
    /\ AlphabetsFit
    /\ gap_penalty.kind = "int"
    /\ score_table' = InitScoreTable(Len(seq1), Len(seq2), gap_penalty.open,
                                     terminal_penalty, local)
    /\ trace_table' = InitTraceTable(Len(seq1), Len(seq2), local)
    /\ fill_pos' = 0
    /\ pc' = "filling"
    /\ UNCHANGED << inputs, call_stack, error, m_table, g1_table, g2_table,
                    max_score, trace_list, result >>

\* Lines 189-199, 220-222 and 230-255: the arguments are accepted and the
\* tables for an affine penalty are set up
SetUpAffine ==
    /\ call = "align_optimal" /\ pc = "start"
    /\ AlphabetsFit
    /\ gap_penalty.kind = "tuple"
    /\ LET n == Len(seq1)
           m == Len(seq2)
           neg_inf == NegInf(matrix, gap_penalty.open, gap_penalty.ext)
       IN  /\ m_table' = InitMTable(n, m, neg_inf)
           /\ g1_table' = InitG1Table(n, m, neg_inf, gap_penalty.open,
                                      gap_penalty.ext, terminal_penalty, local)
           /\ g2_table' = InitG2Table(n, m, neg_inf, gap_penalty.open,
                                      gap_penalty.ext, terminal_penalty, local)
           /\ trace_table' = InitTraceTableAffine(n, m, local)
    /\ fill_pos' = 0
    /\ pc' = "filling"
    /\ UNCHANGED << inputs, call_stack, error, score_table, max_score,
                    trace_list, result >>

\* Lines 387-435: one pass of the loops of _fill_align_table
StepFillCell ==
    /\ pc = "filling" /\ gap_penalty.kind = "int"
    /\ fill_pos < Len(seq1) * Len(seq2)
    /\ \E c \in { CellAt(fill_pos, Len(seq2)) } :
       \E t \in { FillCell([score |-> score_table, trace |-> trace_table],
                           c[1], c[2], seq1, seq2, matrix, gap_penalty.open,
                           terminal_penalty, local) } :
           /\ score_table' = t.score
           /\ trace_table' = t.trace
    /\ fill_pos' = fill_pos + 1
    /\ UNCHANGED << inputs, call_stack, pc, error, m_table, g1_table,
                    g2_table, max_score, trace_list, result >>

\* Lines 464-557: one pass of the loops of _fill_align_table_affine
StepFillCellAffine ==
    /\ pc = "filling" /\ gap_penalty.kind = "tuple"
    /\ fill_pos < Len(seq1) * Len(seq2)
    /\ \E c \in { CellAt(fill_pos, Len(seq2)) } :
       \E t \in { FillCellAffine([m |-> m_table, g1 |-> g1_table,
                                 g2 |-> g2_table, trace |-> trace_table],
                                c[1], c[2], seq1, seq2, matrix,
                                gap_penalty.open, gap_penalty.ext,
                                terminal_penalty, local) } :
           /\ m_table' = t.m
           /\ g1_table' = t.g1
           /\ g2_table' = t.g2
           /\ trace_table' = t.trace
    /\ fill_pos' = fill_pos + 1
    /\ UNCHANGED << inputs, call_stack, pc, error, score_table, max_score,
                    trace_list, result >>

\* The loops of the filler are through and it returns, lines 259 and 274
StepFillDone ==
    /\ pc = "filling"
    /\ fill_pos >= Len(seq1) * Len(seq2)
    /\ pc' = "filled"
    /\ UNCHANGED << inputs, call_stack, tables, fill_pos, error, max_score,
                    trace_list, result >>

\* A call of _follow_trace at the head of a pass of its loop: the cell, the
\* row of the trace array to write next, the trace array and the state
Frame(i, j, pos, trace, state) ==
    [i |-> i, j |-> j, pos |-> pos, trace |-> trace, state |-> state]

\* The calls of lines 346-353, one for each start, each on a fresh array
StartFrames(starts) ==
    [k \in 1..Len(starts) |->
        Frame(starts[k][1], starts[k][2], 0,
              EmptyTrace(starts[k][1], starts[k][2]), starts[k][3])]

\* Lines 276-345: the score of the alignments and the starts of the traces
StartTraceback ==
    /\ pc = "filled"
    /\ LET n == Len(seq1)
           m == Len(seq2)
       IN  IF gap_penalty.kind = "int"
           THEN /\ max_score' = MaxScoreGeneral(score_table, n, m, local)
                /\ call_stack' =
                       StartFrames(StartsGeneral(score_table, n, m, local))
           ELSE /\ max_score' =
                       MaxScoreAffine(m_table, g1_table, g2_table, n, m, local)
                /\ call_stack' =
                       StartFrames(StartsAffine(m_table, g1_table, g2_table,
                                                n, m, local))
    /\ pc' = "tracing"
    /\ UNCHANGED << inputs, tables, fill_pos, error, trace_list, result >>

\* The calls a loop pass from frame f leaves: the recursive calls for
\* next_indices[1:], each on a copy of the array, then the pass for
\* next_indices[0] in the call itself
FramesAfter(f) ==
    LET written == [f.trace EXCEPT ![f.pos + 1] = << f.i - 1, f.j - 1 >>]
        steps == NextSteps(trace_table, f.i, f.j, f.state)
        Call(k) == Frame(steps[k][1], steps[k][2], f.pos + 1, written,
                         steps[k][3])
    IN  [k \in 1..(Len(steps) - 1) |-> Call(k + 1)] \o << Call(1) >>

\* Lines 572-599 and 607-654: one pass of the loop of the running call
FollowStep ==
    /\ pc = "tracing"
    /\ call_stack # << >>
    /\ LET f == Head(call_stack)
       IN  /\ TraceContinues(trace_table, f.i, f.j, f.state)
           /\ call_stack' = FramesAfter(f) \o Tail(call_stack)
    /\ UNCHANGED << inputs, tables, fill_pos, pc, error, max_score,
                    trace_list, result >>

\* Lines 655-658: the loop of the running call is left, the trace is
\* trimmed and appended, the call returns
FollowReturn ==
    /\ pc = "tracing"
    /\ call_stack # << >>
    /\ LET f == Head(call_stack)
       IN  /\ ~TraceContinues(trace_table, f.i, f.j, f.state)
           /\ trace_list' = Append(trace_list, TrimTrace(f.trace))
    /\ call_stack' = Tail(call_stack)
    /\ UNCHANGED << inputs, tables, fill_pos, pc, error, max_score, result >>

\* Line 353: the loop over the starts is through
TracebackDone ==
    /\ pc = "tracing"
    /\ call_stack = << >>
    /\ pc' = "traced"
    /\ UNCHANGED << inputs, tables, fill_pos, call_stack, error, max_score,
                    trace_list, result >>

NextStepwise ==
    \/ RaiseAlphabetMismatch
    \/ RaiseGapPenaltyType
    \/ SetUpGeneral
    \/ SetUpAffine
    \/ StepFillCell
    \/ StepFillCellAffine
    \/ StepFillDone
    \/ StartTraceback
    \/ FollowStep
    \/ FollowReturn
    \/ TracebackDone
    \/ ReturnAlignments

SpecStepwise == Init /\ [][NextStepwise]_vars

\* Longest sequence drawn for the table fillers
MaxFillLen == 3

\* gap_penalty arguments that pass the type test of lines 194-199
TypedGapPenalties == { gp \in GapPenalties : gp.kind \in {"int", "tuple"} }

\* A call of align_optimal whose arguments pass the tests of lines 190-199
InitFill ==
    /\ call = "align_optimal"
    /\ alph1 = MatrixAlphabet
    /\ alph2 = MatrixAlphabet
    /\ seq1 \in SeqsUpTo(CodesOf(alph1), MaxFillLen)
    /\ seq2 \in SeqsUpTo(CodesOf(alph2), MaxFillLen)
    /\ matrix \in Matrices
    /\ gap_penalty \in TypedGapPenalties
    /\ terminal_penalty \in BOOLEAN
    /\ local \in BOOLEAN
    /\ score_only = FALSE
    /\ pc = "start"
    /\ error = "none"
    /\ trace_table = NoTable
    /\ fill_pos = 0
    /\ score_table = NoTable
    /\ m_table = NoTable
    /\ g1_table = NoTable
    /\ g2_table = NoTable
    /\ max_score = 0
    /\ call_stack = << >>
    /\ trace_list = << >>
    /\ result = << >>

\* The steps of align_optimal up to the return of the table filler
NextFill ==
    \/ SetUpGeneral
    \/ SetUpAffine
    \/ StepFillCell
    \/ StepFillCellAffine
    \/ StepFillDone

SpecFill == InitFill /\ [][NextFill]_vars

\* align_optimal runs without waiting for anything: whenever a step of the
\* call is possible, one is taken
SpecLive == Init /\ [][NextStepwise]_vars /\ WF_vars(NextStepwise)

-----------------------------------------------------------------------------
(* align_ungapped *)

\* Lines 66-69: the lengths differ
UngappedRaiseLength ==
    /\ call = "align_ungapped" /\ pc = "start"
    /\ Len(seq1) # Len(seq2)
    /\ error' = "ValueError: lengths"
    /\ pc' = "raised"
    /\ UNCHANGED << inputs, call_stack, tables, fill_pos, max_score,
                    trace_list, result >>

\* Lines 70-72: the alphabets do not fit the matrix
UngappedRaiseAlphabet ==
    /\ call = "align_ungapped" /\ pc = "start"
    /\ Len(seq1) = Len(seq2)
    /\ UngappedAlphabetError(alph1, alph2)
    /\ error' = "ValueError: alphabets"
    /\ pc' = "raised"
    /\ UNCHANGED << inputs, call_stack, tables, fill_pos, max_score,
                    trace_list, result >>

\* Lines 73-75: only the score is returned
UngappedReturnScore ==
    /\ call = "align_ungapped" /\ pc = "start"
    /\ Len(seq1) = Len(seq2)
    /\ ~UngappedAlphabetError(alph1, alph2)
    /\ score_only
    /\ result' = [kind |-> "score",
                  score |-> add_scores(seq1, seq2, matrix),
                  trace |-> << >>]
    /\ pc' = "done"
    /\ UNCHANGED << inputs, call_stack, tables, fill_pos, error, max_score,
                    trace_list >>

\* Lines 73 and 76-90: the trivial alignment is returned
UngappedReturnAlignment ==
    /\ call = "align_ungapped" /\ pc = "start"
    /\ Len(seq1) = Len(seq2)
    /\ ~UngappedAlphabetError(alph1, alph2)
    /\ ~score_only
    /\ result' = [kind |-> "alignment",
                  score |-> add_scores(seq1, seq2, matrix),
                  trace |-> TrivialTrace(Len(seq1))]
    /\ pc' = "done"
    /\ UNCHANGED << inputs, call_stack, tables, fill_pos, error, max_score,
                    trace_list >>

NextUngapped ==
    \/ UngappedRaiseLength
    \/ UngappedRaiseAlphabet
    \/ UngappedReturnScore
    \/ UngappedReturnAlignment

SpecUngapped == InitUngapped /\ [][NextUngapped]_vars

\* A call of either public function
SpecCalls == (Init \/ InitUngapped) /\ [][Next \/ NextUngapped]_vars

-----------------------------------------------------------------------------
(* The example of the docstring of align_optimal, lines 173-188 *)

\* The alphabet of a NucleotideSequence: A, C, G, T as codes 0 .. 3
NucleotideAlphabet == << 0, 1, 2, 3 >>

\* NucleotideSequence("ATACGCTTGCT")
ExampleSeq1 == << 0, 3, 0, 1, 2, 1, 3, 3, 2, 1, 3 >>

\* NucleotideSequence("AGGCGCAGCT")
ExampleSeq2 == << 0, 2, 2, 1, 2, 1, 0, 2, 1, 3 >>

\* SubstitutionMatrix.std_nucleotide_matrix(): one score for a match, one
\* for a mismatch
ExampleMatrix ==
    [p \in (0..3) \X (0..3) |-> IF p[1] = p[2] THEN 6 ELSE -4]

\* gap_penalty=-6
ExampleGapPenalty == -6

\* The leading parts of a sequence, the empty one and the whole included
Prefixes(s) == { SubSeq(s, 1, k) : k \in 0..Len(s) }

\* A call of align_optimal as in the example, on the two sequences or on
\* leading parts of them; terminal_penalty and local keep their defaults
InitExample ==
    /\ call = "align_optimal"
    /\ alph1 = NucleotideAlphabet
    /\ alph2 = NucleotideAlphabet
    /\ seq1 \in Prefixes(ExampleSeq1)
    /\ seq2 \in Prefixes(ExampleSeq2)
    /\ matrix = ExampleMatrix
    /\ gap_penalty = IntPenalty(ExampleGapPenalty)
    /\ terminal_penalty = TRUE
    /\ local = FALSE
    /\ score_only = FALSE
    /\ pc = "start"
    /\ error = "none"
    /\ trace_table = NoTable
    /\ fill_pos = 0
    /\ score_table = NoTable
    /\ m_table = NoTable
    /\ g1_table = NoTable
    /\ g2_table = NoTable
    /\ max_score = 0
    /\ call_stack = << >>
    /\ trace_list = << >>
    /\ result = << >>

\* The steps of a call with a general penalty
NextExample ==
    \/ SetUpGeneral
    \/ StepFillCell
    \/ StepFillDone
    \/ TracebackGeneral
    \/ ReturnAlignments

SpecExample == InitExample /\ [][NextExample]_vars

-----------------------------------------------------------------------------
(* Reference definitions for the properties: alignments enumerated and     *)
(* scored directly, independent of the tables                              *)

\* align_optimal has returned
Returned == call = "align_optimal" /\ pc = "done"

\* The gap penalty is an int or a pair and every value of it is negative
NegativePenalty ==
    /\ gap_penalty.kind \in {"int", "tuple"}
    /\ gap_penalty.open < 0
    /\ gap_penalty.ext < 0

RECURSIVE AllAlignments(_, _)
\* Every alignment of the first n positions of one sequence with the first m
\* of another, as traces: rows << i, j >> with 0-based indices, -1 for a gap
AllAlignments(n, m) ==
    IF n = 0 /\ m = 0 THEN { << >> }
    ELSE (IF n > 0 /\ m > 0
          THEN { Append(a, << n-1, m-1 >>) : a \in AllAlignments(n-1, m-1) }
          ELSE {})
         \cup (IF n > 0
               THEN { Append(a, << n-1, -1 >>) : a \in AllAlignments(n-1, m) }
               ELSE {})
         \cup (IF m > 0
               THEN { Append(a, << -1, m-1 >>) : a \in AllAlignments(n, m-1) }
               ELSE {})

\* A trace with the indices moved to start at i0 and j0
Shift(a, i0, j0) ==
    [k \in 1..Len(a) |->
        << IF a[k][1] = -1 THEN -1 ELSE a[k][1] + i0,
           IF a[k][2] = -1 THEN -1 ELSE a[k][2] + j0 >>]

\* Every alignment of a substring of the one sequence (length n) with a
\* substring of the other (length m)
AllLocalAlignments(n, m) ==
    UNION { { Shift(a, i0, j0) : a \in AllAlignments(i1 - i0, j1 - j0) } :
            << i0, i1, j0, j1 >> \in
                { q \in (0..n) \X (0..n) \X (0..m) \X (0..m) :
                    q[1] <= q[2] /\ q[3] <= q[4] } }

\* Row k of trace a is a gap column in sequence col that lies before the
\* first or after the last index of that sequence in the trace
IsTerminalGap(a, k, col) ==
    \/ \A q \in 1..(k - 1) : a[q][col] = -1
    \/ \A q \in (k + 1)..Len(a) : a[q][col] = -1

\* The score of column k of trace a: the matrix score of an aligned pair; for
\* a gap column the opening value when it starts a run of gaps in that
\* sequence, the extension value when it continues one, nothing for a
\* terminal gap that is not charged
ColumnScore(a, k, code1, code2, mat, gp, charge_terminal) ==
    LET col == IF a[k][1] = -1 THEN 1 ELSE 2
    IN  IF a[k][1] # -1 /\ a[k][2] # -1
        THEN mat[<< code1[a[k][1] + 1], code2[a[k][2] + 1] >>]
        ELSE IF ~charge_terminal /\ IsTerminalGap(a, k, col) THEN 0
        ELSE IF k > 1 /\ a[k-1][col] = -1 THEN gp.ext
        ELSE gp.open

RECURSIVE RescoreFrom(_, _, _, _, _, _, _)
RescoreFrom(a, k, code1, code2, mat, gp, charge_terminal) ==
    IF k > Len(a) THEN 0
    ELSE ColumnScore(a, k, code1, code2, mat, gp, charge_terminal)
         + RescoreFrom(a, k + 1, code1, code2, mat, gp, charge_terminal)

\* The score of trace a under the matrix and the gap penalty
Rescore(a, code1, code2, mat, gp, charge_terminal) ==
    RescoreFrom(a, 1, code1, code2, mat, gp, charge_terminal)

\* The alignments the mode admits: end to end, or of any two substrings
Candidates(n, m, loc) ==
    IF loc THEN AllLocalAlignments(n, m) ELSE AllAlignments(n, m)

\* In local mode every gap of the aligned substrings is charged
ChargeTerminal(tp, loc) == loc \/ tp

\* The largest score any alignment of the mode attains
BestScore(code1, code2, mat, gp, tp, loc) ==
    MaxOf({ Rescore(a, code1, code2, mat, gp, ChargeTerminal(tp, loc)) :
            a \in Candidates(Len(code1), Len(code2), loc) })

\* The alignments of the mode that attain the largest score
BestAlignments(code1, code2, mat, gp, tp, loc) ==
    LET best == BestScore(code1, code2, mat, gp, tp, loc)
    IN  { a \in Candidates(Len(code1), Len(code2), loc) :
            Rescore(a, code1, code2, mat, gp, ChargeTerminal(tp, loc)) = best }

\* The scores and the traces of a returned list of alignments
ScoresOf(alignments) == { alignments[k].score : k \in 1..Len(alignments) }

TracesOf(alignments) == { alignments[k].trace : k \in 1..Len(alignments) }

-----------------------------------------------------------------------------
(* Properties *)

\* C1: every returned alignment carries the largest score that any alignment
\* of the two sequences attains under the penalty and the mode.
C1_ScoreIsMaximum ==
    (Returned /\ NegativePenalty) =>
        \A k \in 1..Len(result) :
            result[k].score = BestScore(seq1, seq2, matrix, gap_penalty,
                                        terminal_penalty, local)

\* C2: every alignment that attains the largest score is the trace of one of
\* the returned alignments.
C2_AllOptimalReturned ==
    (Returned /\ NegativePenalty) =>
        BestAlignments(seq1, seq2, matrix, gap_penalty, terminal_penalty,
                       local) \subseteq TracesOf(result)

\* C3: with an affine penalty whose opening and extension values are the same
\* negative g, the score is the one a call with the general penalty g returns.
C3_AffineEqualsGeneral ==
    (Returned /\ NegativePenalty /\ gap_penalty.kind = "tuple"
              /\ gap_penalty.open = gap_penalty.ext) =>
        ScoresOf(result) =
            ScoresOf(align_optimal(alph1, alph2, seq1, seq2, matrix,
                                   IntPenalty(gap_penalty.open),
                                   terminal_penalty, local).alignments)

\* Some value of the gap penalty is not negative
NonNegativePenalty ==
    /\ gap_penalty.kind \in {"int", "tuple"}
    /\ (gap_penalty.open >= 0 \/ gap_penalty.ext >= 0)

\* C4: a call with a gap penalty that has a non-negative value ends in an
\* exception; it fills no table and returns no alignment.
C4_NonNegativePenaltyRaises ==
    (call = "align_optimal" /\ NonNegativePenalty /\ pc # "start") =>
        (pc = "raised" /\ error # "none")

\* C5: align_ungapped on sequences of equal length raises the alphabet error
\* as soon as one of the two alphabets is not covered by the matrix.
C5_UngappedEitherAlphabetRaises ==
    (call = "align_ungapped" /\ pc # "start" /\ Len(seq1) = Len(seq2)
        /\ (~Extends(MatrixAlphabet, alph1) \/ ~Extends(MatrixAlphabet, alph2)))
    => (pc = "raised" /\ error = "ValueError: alphabets")

\* C6: in local mode the call returns the same list of alignments (scores and
\* traces) as the call with the other value of terminal_penalty.
C6_LocalIgnoresTerminalPenalty ==
    (Returned /\ NegativePenalty /\ local) =>
        result = align_optimal(alph1, alph2, seq1, seq2, matrix, gap_penalty,
                               ~terminal_penalty, local).alignments

\* C7: the score of every returned alignment is the score of its trace under
\* the matrix and the gap penalty, terminal gaps charged when
\* terminal_penalty is on.
C7_RescoreReproducesScore ==
    (Returned /\ NegativePenalty) =>
        \A k \in 1..Len(result) :
            Rescore(result[k].trace, seq1, seq2, matrix, gap_penalty,
                    terminal_penalty) = result[k].score

\* The matrix with its axes swapped
TransposeMatrix(mat) == [p \in DOMAIN mat |-> mat[<< p[2], p[1] >>]]

\* A trace with its two columns swapped
SwapColumns(a) == [k \in 1..Len(a) |-> << a[k][2], a[k][1] >>]

\* C8: the call with the sequences exchanged and the matrix transposed
\* returns the same score and, as a set, the traces with their columns
\* swapped.
C8_Symmetry ==
    Returned =>
        LET other == align_optimal(alph2, alph1, seq2, seq1,
                                   TransposeMatrix(matrix), gap_penalty,
                                   terminal_penalty, local).alignments
        IN  /\ ScoresOf(other) = ScoresOf(result)
            /\ TracesOf(other) = { SwapColumns(a) : a \in TracesOf(result) }

\* A call whose symmetric counterpart differs from it: different sequences,
\* an asymmetric matrix, several traces and a gap among them
C8_Witness ==
    /\ Returned /\ NegativePenalty
    /\ seq1 # seq2
    /\ matrix # TransposeMatrix(matrix)
    /\ Len(result) >= 2
    /\ \E k \in 1..Len(result) : \E q \in 1..Len(result[k].trace) :
           result[k].trace[q][1] = -1

\* The entries of column col of trace a that are not gaps, in order
NonGapEntries(a, col) ==
    LET NotGap(row) == row[col] # -1
        rows == SelectSeq(a, NotGap)
    IN  [k \in 1..Len(rows) |-> rows[k][col]]

\* Consecutive entries of s differ by exactly one
StepsByOne(s) == \A k \in 1..(Len(s) - 1) : s[k + 1] = s[k] + 1

\* C9: in every returned trace the indices of each sequence that are not gaps
\* go up by exactly one from one to the next, and no row is a gap in both
\* sequences.
C9_TraceValid ==
    Returned =>
        \A k \in 1..Len(result) :
            LET a == result[k].trace
            IN  /\ StepsByOne(NonGapEntries(a, 1))
                /\ StepsByOne(NonGapEntries(a, 2))
                /\ \A q \in 1..Len(a) : a[q] # << -1, -1 >>

\* A returned trace of three rows or more with a gap in each sequence
C9_Witness ==
    /\ Returned /\ NegativePenalty
    /\ \E k \in 1..Len(result) :
           LET a == result[k].trace
           IN  /\ Len(a) >= 3
               /\ \E q \in 1..Len(a) : a[q][1] = -1
               /\ \E q \in 1..Len(a) : a[q][2] = -1

RECURSIVE SumOfScores(_, _, _, _)
\* The sum of mat[code1[i], code2[i]] over the first k positions
SumOfScores(code1, code2, mat, k) ==
    IF k = 0 THEN 0
    ELSE SumOfScores(code1, code2, mat, k - 1) + mat[<< code1[k], code2[k] >>]

\* C10: align_ungapped that returns gives the sum of the scores of all
\* positions, and without score_only an alignment with that score whose
\* trace has row i equal to << i, i >> for i = 0 .. n-1.
C10_UngappedScoreAndTrace ==
    (call = "align_ungapped" /\ pc = "done") =>
        /\ result.score = SumOfScores(seq1, seq2, matrix, Len(seq1))
        /\ score_only => result.kind = "score"
        /\ ~score_only =>
               /\ result.kind = "alignment"
               /\ result.trace = [i \in 1..Len(seq1) |-> << i - 1, i - 1 >>]

\* An alignment returned for two different sequences of the longest length
C10_Witness ==
    /\ call = "align_ungapped" /\ pc = "done"
    /\ ~score_only
    /\ Len(seq1) = MaxLen
    /\ seq1 # seq2
    /\ result.score # 0

\* Every entry of the score matrix is negative
AllNegative(mat) == \A p \in DOMAIN mat : mat[p] < 0

\* C11: in local mode with a score matrix of negative entries only and a
\* negative gap penalty, every returned alignment has score 0 and an empty
\* trace.
C11_LocalAllNegativeEmpty ==
    (Returned /\ local /\ NegativePenalty /\ AllNegative(matrix)) =>
        \A k \in 1..Len(result) :
            /\ result[k].score = 0
            /\ result[k].trace = << >>

\* A local call on two sequences of the longest length under the matrix of
\* negative entries, terminal penalties off, that returned alignments
C11_Witness ==
    /\ Returned /\ local /\ NegativePenalty /\ AllNegative(matrix)
    /\ ~terminal_penalty
    /\ Len(seq1) = MaxLen /\ Len(seq2) = MaxLen
    /\ Len(result) >= 1

\* ATACGCTTGCT over AGGCGCA-GCT: the gap of seq2 in column 7
ExampleAlignmentA ==
    << << 0, 0 >>, << 1, 1 >>, << 2, 2 >>, << 3, 3 >>, << 4, 4 >>, << 5, 5 >>,
       << 6, 6 >>, << 7, -1 >>, << 8, 7 >>, << 9, 8 >>, << 10, 9 >> >>

\* ATACGCTTGCT over AGGCGC-AGCT: the gap of seq2 in column 6
ExampleAlignmentB ==
    << << 0, 0 >>, << 1, 1 >>, << 2, 2 >>, << 3, 3 >>, << 4, 4 >>, << 5, 5 >>,
       << 6, -1 >>, << 7, 6 >>, << 8, 7 >>, << 9, 8 >>, << 10, 9 >> >>

\* The call of the example on the two whole sequences has returned
ExampleReturned ==
    /\ Returned
    /\ seq1 = ExampleSeq1 /\ seq2 = ExampleSeq2
    /\ matrix = ExampleMatrix
    /\ gap_penalty = IntPenalty(ExampleGapPenalty)
    /\ terminal_penalty /\ ~local

\* C12: the global alignment of ATACGCTTGCT with AGGCGCAGCT under the
\* match/mismatch matrix and gap penalty -6 returns exactly two alignments,
\* each of 11 columns with one gap, in seq2: ATACGCTTGCT over AGGCGCA-GCT
\* and ATACGCTTGCT over AGGCGC-AGCT.
C12_DocstringExample ==
    ExampleReturned =>
        /\ Len(result) = 2
        /\ TracesOf(result) = { ExampleAlignmentA, ExampleAlignmentB }
        /\ \A k \in 1..Len(result) : Len(result[k].trace) = 11

\* The call of the example has returned alignments
C12_Witness ==
    /\ ExampleReturned
    /\ Len(result) >= 1

\* The input is well-formed: the matrix covers both alphabets and the gap
\* penalty is an int or a pair of negative values
WellFormed ==
    /\ call = "align_optimal"
    /\ AlphabetsFit
    /\ NegativePenalty

\* The states the traceback can be in for the kind of gap penalty
TraceStates == IF gap_penalty.kind = "int" THEN {0} ELSE {1, 2, 3}

\* From every cell and state where the traceback goes on, each step it can
\* take leads to a cell of the table that is nearer to << 0, 0 >>
StepsDescend ==
    \A c \in Cells(Len(seq1), Len(seq2)) : \A state \in TraceStates :
        TraceContinues(trace_table, c[1], c[2], state) =>
            LET steps == NextSteps(trace_table, c[1], c[2], state)
            IN  /\ Len(steps) >= 1
                /\ \A k \in 1..Len(steps) :
                       /\ << steps[k][1], steps[k][2] >>
                              \in Cells(Len(seq1), Len(seq2))
                       /\ steps[k][1] + steps[k][2] < c[1] + c[2]

\* C13: on well-formed input a call of align_optimal comes to its return:
\* the tables get filled, every step of the traceback leads nearer to the
\* origin of the table, so every branch ends, and the list returned holds
\* at least one alignment.
C13_Terminates ==
    /\ []((WellFormed /\ pc \in {"filled", "traced", "done"})
             => StepsDescend)
    /\ []((WellFormed /\ Returned) => Len(result) >= 1)
    /\ ((WellFormed /\ pc = "start") ~> (Returned /\ Len(result) >= 1))

\* A well-formed call on sequences of the longest length whose traceback
\* has branched and has returned
C13_Witness ==
    /\ WellFormed /\ Returned
    /\ Len(seq1) = MaxLen /\ Len(seq2) = MaxLen
    /\ Len(result) >= 2

\* No table has been allocated
NoTablesAllocated ==
    /\ trace_table = NoTable
    /\ score_table = NoTable
    /\ m_table = NoTable
    /\ g1_table = NoTable
    /\ g2_table = NoTable

\* The arguments fail one of the three validations
FailsValidation ==
    \/ call = "align_ungapped" /\ Len(seq1) # Len(seq2)
    \/ call = "align_optimal"
           /\ (~Extends(MatrixAlphabet, alph1)
                  \/ ~Extends(MatrixAlphabet, alph2))
    \/ call = "align_optimal" /\ gap_penalty.kind \notin {"int", "tuple"}

\* C14: a call whose arguments fail a validation (sequences of different
\* length for align_ungapped; for align_optimal an alphabet the matrix does
\* not extend, or a gap penalty that is neither int nor tuple) ends in an
\* exception, and a call that ended in an exception has allocated no table
\* and returned nothing.
C14_ValidationBeforeTables ==
    /\ (FailsValidation /\ pc # "start") =>
           (pc = "raised" /\ error # "none")
    /\ pc = "raised" =>
           (error # "none" /\ NoTablesAllocated /\ result = << >>)
    /\ (call = "align_optimal" /\ pc = "raised") =>
           error = (IF ~Extends(MatrixAlphabet, alph1)
                       \/ ~Extends(MatrixAlphabet, alph2)
                    THEN "ValueError" ELSE "TypeError")

\* align_optimal has raised for an alphabet of the second sequence that the
\* matrix does not cover, the gap penalty being of a wrong type as well
C14_Witness ==
    /\ call = "align_optimal" /\ pc = "raised"
    /\ Extends(MatrixAlphabet, alph1)
    /\ ~Extends(MatrixAlphabet, alph2)
    /\ gap_penalty.kind = "other"
    /\ Len(seq1) = MaxLen

\* The general filler is about to make a loop pass
FillingGeneral ==
    /\ pc = "filling" /\ gap_penalty.kind = "int"
    /\ fill_pos < Len(seq1) * Len(seq2)

\* The cell the next loop pass of the filler is for
NextCell == CellAt(fill_pos, Len(seq2))

\* << from_diag, from_left, from_top >> of the next loop pass
NextCandidates ==
    GeneralCandidates(score_table, NextCell[1], NextCell[2], seq1, seq2,
                      matrix, gap_penalty.open, terminal_penalty)

\* C15: in every loop pass of the general filler the score chosen before
\* the local clamp is the largest of from_diag, from_left and from_top,
\* whichever of them are equal.
C15_ScoreIsMaxOfCandidates ==
    FillingGeneral =>
        LET from == NextCandidates
        IN  FindMaximum(from[1], from[2], from[3])[2]
                = MaxOf({ from[1], from[2], from[3] })

\* The affine filler is about to make a loop pass
FillingAffine ==
    /\ pc = "filling" /\ gap_penalty.kind = "tuple"
    /\ fill_pos < Len(seq1) * Len(seq2)

\* The seven candidate scores of the next loop pass of the affine filler
NextAffineCandidates ==
    AffineCandidates(m_table, g1_table, g2_table, NextCell[1], NextCell[2],
                     seq1, seq2, matrix, gap_penalty.open, gap_penalty.ext,
                     terminal_penalty)

\* C16: in every loop pass of the affine filler the values chosen before the
\* local clamp are, for the match table, the similarity plus the largest of
\* the three tables at the diagonal cell, and for each gap table the larger
\* of opening a gap from the match table and extending one in the gap table,
\* whichever candidates are equal.
C16_AffineRecurrences ==
    FillingAffine =>
        LET from == NextAffineCandidates
        IN  /\ FindMaximumMatch(from.mm_score, from.g1m_score,
                                from.g2m_score)[2]
                   = MaxOf({ from.mm_score, from.g1m_score, from.g2m_score })
            /\ FindMaximumGap1(from.mg1_score, from.g1g1_score)[2]
                   = MaxOf({ from.mg1_score, from.g1g1_score })
            /\ FindMaximumGap2(from.mg2_score, from.g2g2_score)[2]
                   = MaxOf({ from.mg2_score, from.g2g2_score })

\* The bits 1, 2 and 4 for those of from_diag, from_left and from_top that
\* equal the largest of the three
MaximalBits(from) ==
    LET best == MaxOf({ from[1], from[2], from[3] })
    IN  (IF from[1] = best THEN 1 ELSE 0)
        + (IF from[2] = best THEN 2 ELSE 0)
        + (IF from[3] = best THEN 4 ELSE 0)

\* The interior cells the filler has been through
FilledCells == { CellAt(k, Len(seq2)) : k \in 0..(fill_pos - 1) }

\* C17: every interior cell the general filler has been through carries the
\* bits of exactly those of its three candidates that equal the largest one,
\* unless in local mode the cell was clamped: then its score is 0 and its
\* trace byte is empty. In global mode no such cell has an empty trace byte;
\* in local mode its trace byte is empty exactly if its score is 0.
C17_TraceMarksMaxima ==
    (pc \in {"filling", "filled"} /\ gap_penalty.kind = "int") =>
        \A c \in FilledCells :
            LET from == GeneralCandidates(score_table, c[1], c[2], seq1, seq2,
                                          matrix, gap_penalty.open,
                                          terminal_penalty)
            IN  /\ \/ trace_table[c] = MaximalBits(from)
                   \/ local /\ score_table[c] = 0 /\ trace_table[c] = 0
                /\ ~local => trace_table[c] # 0
                /\ local => (trace_table[c] = 0 <=> score_table[c] = 0)

\* A general fill in local mode that is through, on sequences of the longest
\* length, with a clamped cell and a cell where candidates are equal
C17_Witness ==
    /\ pc = "filled" /\ gap_penalty.kind = "int" /\ local
    /\ Len(seq1) = MaxFillLen /\ Len(seq2) = MaxFillLen
    /\ \E c \in FilledCells : trace_table[c] = 0
    /\ \E c \in FilledCells : trace_table[c] \in {3, 5, 6, 7}

\* a + b lies outside the range of a signed 32 bit integer
Overflows(a, b) ==
    \/ b > 0 /\ a > INT32_MAX - b
    \/ b < 0 /\ a < INT32_MIN - b

\* The additions of the next loop pass of the affine filler
NextAffineAdditions ==
    AffineAdditions(m_table, g1_table, g2_table, NextCell[1], NextCell[2],
                    seq1, seq2, matrix, gap_penalty.open, gap_penalty.ext,
                    terminal_penalty)

\* The sentinel for negative infinity of the call
Sentinel == NegInf(matrix, gap_penalty.open, gap_penalty.ext)

\* C18: with negative gap_open and gap_ext no addition of the affine filler
\* leaves the range of a 32 bit integer, those on the sentinel and on values
\* derived from it included: each candidate of the next loop pass is the sum
\* of its two operands without wrap-around. No entry of the three tables is
\* a large positive number.
C18_SentinelNeverOverflows ==
    (pc \in {"filling", "filled"} /\ gap_penalty.kind = "tuple"
        /\ NegativePenalty) =>
        /\ FillingAffine =>
               \A k \in DOMAIN NextAffineAdditions :
                   /\ ~Overflows(NextAffineAdditions[k][1],
                                 NextAffineAdditions[k][2])
                   /\ NextAffineCandidates[k] =
                          NextAffineAdditions[k][1] + NextAffineAdditions[k][2]
        /\ \A c \in Cells(Len(seq1), Len(seq2)) :
               /\ m_table[c] <= INT32_MAX \div 2
               /\ g1_table[c] <= INT32_MAX \div 2
               /\ g2_table[c] <= INT32_MAX \div 2

\* A loop pass of the affine filler, the penalties negative, that adds to a
\* value derived from the sentinel: one below the sentinel plus the smallest
\* matrix entry
C18_Witness ==
    /\ FillingAffine /\ NegativePenalty
    /\ MinScore(matrix) < 0
    /\ \E k \in DOMAIN NextAffineAdditions :
           /\ NextAffineAdditions[k][1] < Sentinel
           /\ NextAffineAdditions[k][2] < 0

\* The states a pass of the traceback loop in cell << i, j >> and state may go
\* on with
NextStates(tt, i, j, state) ==
    LET steps == NextSteps(tt, i, j, state)
    IN  { steps[k][3] : k \in DOMAIN steps }

\* Row k of the trace is a gap column in the first, the second sequence
GapInSeq1(trace, k) == trace[k][1] = -1
GapInSeq2(trace, k) == trace[k][2] = -1

\* The trace has a gap column in one sequence next to one in the other
AdjacentGaps(trace) ==
    \E k \in 1..(Len(trace) - 1) :
        \/ GapInSeq1(trace, k) /\ GapInSeq2(trace, k + 1)
        \/ GapInSeq2(trace, k) /\ GapInSeq1(trace, k + 1)

\* C19: with an affine penalty, in no cell of the trace table does the
\* traceback step from state 2 (gap in the first sequence) to state 3 (gap in
\* the second) or back: from state 2 it goes on in state 1 or 2, from state 3
\* in state 1 or 3. No returned trace has a gap column in one sequence next
\* to a gap column in the other.
C19_NoGapToGapStep ==
    (call = "align_optimal" /\ gap_penalty.kind = "tuple"
        /\ pc \in {"filled", "traced", "done"}) =>
        /\ \A c \in Cells(Len(seq1), Len(seq2)) :
               /\ NextStates(trace_table, c[1], c[2], 2) \subseteq {1, 2}
               /\ NextStates(trace_table, c[1], c[2], 3) \subseteq {1, 3}
        /\ pc = "done" =>
               \A k \in DOMAIN result : ~AdjacentGaps(result[k].trace)

\* An affine call has returned a trace with a gap column in the first and a
\* gap column in the second sequence, and the table has a cell from which the
\* traceback goes on in state 2 and one from which it goes on in state 3
C19_Witness ==
    /\ Returned /\ gap_penalty.kind = "tuple" /\ NegativePenalty
    /\ \E k \in DOMAIN result :
           /\ \E r \in DOMAIN result[k].trace : GapInSeq1(result[k].trace, r)
           /\ \E r \in DOMAIN result[k].trace : GapInSeq2(result[k].trace, r)
    /\ \E c \in Cells(Len(seq1), Len(seq2)) :
           2 \in NextStates(trace_table, c[1], c[2], 2)
    /\ \E c \in Cells(Len(seq1), Len(seq2)) :
           3 \in NextStates(trace_table, c[1], c[2], 3)

RECURSIVE PathsFrom(_, _, _, _)
\* The backward paths of the trace table tt from cell << i, j >> in a state:
\* each the sequence of << i, j, state >> passed, following any set bit of
\* the bits that belong to the state, up to and with the cell where these
\* bits are empty
PathsFrom(tt, i, j, state) ==
    IF ~TraceContinues(tt, i, j, state) THEN { << << i, j, state >> >> }
    ELSE LET steps == NextSteps(tt, i, j, state)
         IN  UNION { { << << i, j, state >> >> \o p :
                         p \in PathsFrom(tt, steps[k][1], steps[k][2],
                                         steps[k][3]) } :
                     k \in DOMAIN steps }

\* The rows of a trace that lists exactly the cells of a path; the cell the
\* path ends in, where nothing is written, is not among them
PathRows(p) == [k \in 1..(Len(p) - 1) |-> << p[k][1] - 1, p[k][2] - 1 >>]

\* The start cells and states of the traceback of the call
TracebackStarts ==
    IF gap_penalty.kind = "int"
    THEN StartsGeneral(score_table, Len(seq1), Len(seq2), local)
    ELSE StartsAffine(m_table, g1_table, g2_table, Len(seq1), Len(seq2),
                      local)

\* Every backward path of the call, with the number of its start
AllPaths ==
    UNION { { << k, p >> : p \in PathsFrom(trace_table, TracebackStarts[k][1],
                                           TracebackStarts[k][2],
                                           TracebackStarts[k][3]) } :
            k \in DOMAIN TracebackStarts }

\* C20: once the traceback is through, the traces of trace_list correspond
\* one to one to the backward paths from the start cells: there are as many
\* traces as paths, and every sequence of rows is the trace of as many
\* entries of trace_list as there are paths it lists exactly the cells of. No
\* trace holds a row of another branch.
C20_OneTracePerPath ==
    (call = "align_optimal" /\ pc = "traced") =>
        /\ Len(trace_list) = Cardinality(AllPaths)
        /\ \A q \in AllPaths :
               Cardinality({ k \in DOMAIN trace_list :
                               trace_list[k] = PathRows(q[2]) })
                   = Cardinality({ r \in AllPaths :
                                     PathRows(r[2]) = PathRows(q[2]) })

\* The traceback is through and two paths of one start, with different
\* rows, share their first two cells
C20_Witness ==
    /\ call = "align_optimal" /\ pc = "traced"
    /\ Len(trace_list) >= 2
    /\ \E q, r \in AllPaths :
           /\ q[1] = r[1] /\ q[2] # r[2]
           /\ Len(q[2]) >= 3 /\ Len(r[2]) >= 3
           /\ q[2][2] = r[2][2]
           /\ PathRows(q[2]) # PathRows(r[2])

\* The traces of the alignments in the list are pairwise distinct
DistinctTraces(alignments) ==
    \A k, l \in DOMAIN alignments :
        k # l => alignments[k].trace # alignments[l].trace

\* C21: the alignments a call of align_optimal returns have pairwise distinct
\* traces, in global and in local mode, for a general and for an affine
\* penalty.
C21_TracesDistinct == Returned => DistinctTraces(result)

\* The trace holds every index 0..n-1 once in its first column and every
\* index 0..m-1 once in its second; every other entry is -1
CompleteTrace(trace, n, m) ==
    /\ \A v \in 0..(n - 1) :
           Cardinality({ k \in DOMAIN trace : trace[k][1] = v }) = 1
    /\ \A v \in 0..(m - 1) :
           Cardinality({ k \in DOMAIN trace : trace[k][2] = v }) = 1
    /\ \A k \in DOMAIN trace :
           /\ trace[k][1] \in (0..(n - 1)) \cup {-1}
           /\ trace[k][2] \in (0..(m - 1)) \cup {-1}

\* The cell a backward path ends in
EndCell(p) == << p[Len(p)][1], p[Len(p)][2] >>

\* C22: in global mode every backward path from the bottom right cell ends in
\* cell << 0, 0 >>, none on row 0 or column 0 before it, and every returned
\* trace holds each index of seq1 once in its first column and each index of
\* seq2 once in its second, all other entries being -1.
C22_GlobalPathsReachOrigin ==
    (call = "align_optimal" /\ ~local) =>
        /\ pc \in {"traced", "done"} =>
               /\ \A q \in AllPaths :
                      /\ q[2][1][1] = Len(seq1) /\ q[2][1][2] = Len(seq2)
                      /\ EndCell(q[2]) = << 0, 0 >>
               /\ Len(trace_list) >= 1
        /\ pc = "done" =>
               \A k \in DOMAIN result :
                   CompleteTrace(result[k].trace, Len(seq1), Len(seq2))

\* The path passes a cell of row 0, of column 0, other than << 0, 0 >>
PassesRow0(p) == \E k \in DOMAIN p : p[k][1] = 0 /\ p[k][2] >= 1
PassesColumn0(p) == \E k \in DOMAIN p : p[k][2] = 0 /\ p[k][1] >= 1

\* A global call with an affine penalty on sequences of the longest length
\* has returned more than one alignment; one of its paths runs along row 0
\* and one along column 0
C22_Witness ==
    /\ Returned /\ ~local /\ gap_penalty.kind = "tuple" /\ NegativePenalty
    /\ Len(seq1) = MaxLen /\ Len(seq2) = MaxLen
    /\ Len(result) >= 2
    /\ \E q \in AllPaths : PassesRow0(q[2])
    /\ \E q \in AllPaths : PassesColumn0(q[2])

====
